---- MODULE Spec2Model ----
(***************************************************************************)
(* Model of the versioned encode/decode programs of the kafka-api message  *)
(* schemata: FetchResponse and its children (encode), RequestHeader,       *)
(* HeartbeatRequest and ApiVersionsRequest (decode).                       *)
(*                                                                         *)
(* Every codec call is a pure function of (value or bytes, version).  The  *)
(* state machine has one action per entry point: a caller picks an input   *)
(* from a bounded set, the call runs to completion and leaves its result   *)
(* in `res`; Return hands the result back and makes the next call possible.*)
(*                                                                         *)
(* The primitive codec layer (crate::codec) is modelled at the byte level  *)
(* from its description in the specification; the per-struct programs are  *)
(* translated statement by statement from the schemata sources.            *)
(***************************************************************************)
EXTENDS Integers, Sequences, FiniteSets, TLC

\* ------------------------------------------------------------------------
\* Bounds of the model
\* ------------------------------------------------------------------------
\* largest tag id an entry of unknown_tagged_fields may carry
MaxTag == 3
\* longest unknown_tagged_fields list of a PartitionData
MaxUnknown == 2
\* longest aborted_transactions list
MaxAborted == 1
\* longest partitions list of a FetchableTopicResponse
MaxPartitions == 1
\* longest responses list of a FetchResponse
MaxResponses == 1
\* longest free-form byte tail appended to a decode input
MaxTail == 3

\* highest Fetch protocol version
MaxVersion == 15
\* highest version handed to the request decoders
MaxRequestVersion == 4

Versions == 0..MaxVersion
RequestVersions == 0..MaxRequestVersion

\* ------------------------------------------------------------------------
\* Byte helpers
\* ------------------------------------------------------------------------
RECURSIVE BigEndian(_, _)
\* n bytes of the two's complement big-endian form of v
BigEndian(n, v) ==
    IF n = 0 THEN <<>> ELSE BigEndian(n - 1, v \div 256) \o <<v % 256>>

RECURSIVE UnsignedVarintBytes(_)
\* base-128 groups, least significant first, MSB = continuation
UnsignedVarintBytes(n) ==
    IF n < 128 THEN <<n>>
    ELSE <<(n % 128) + 128>> \o UnsignedVarintBytes(n \div 128)

Drop(s, n) == SubSeq(s, n + 1, Len(s))
Take(s, n) == SubSeq(s, 1, n)

RECURSIVE SeqsUpTo(_, _)
\* all sequences over S of length at most n
SeqsUpTo(S, n) ==
    IF n = 0 THEN {<<>>}
    ELSE LET shorter == SeqsUpTo(S, n - 1)
         IN  shorter \cup {Append(s, x) : s \in shorter, x \in S}

\* ------------------------------------------------------------------------
\* Writer: the output buffer of an encode call, the sequence of primitive
\* writes that produced it, and the first error (the `?` operator makes
\* every later statement a no-op once an error is set).
\* ------------------------------------------------------------------------
NewWriter == [ok |-> TRUE, err |-> "", errname |-> "", bytes |-> <<>>, log |-> <<>>]

At(struct, version, field) == [struct |-> struct, version |-> version, field |-> field]

Entry(at, prim, compact, tags) ==
    [struct |-> at.struct, version |-> at.version, field |-> at.field,
     prim |-> prim, compact |-> compact, tags |-> tags]

Put(w, bytes, entry) ==
    IF ~w.ok THEN w
    ELSE [w EXCEPT !.bytes = @ \o bytes, !.log = Append(@, entry)]

Fail(w, kind, name) ==
    IF ~w.ok THEN w
    ELSE [w EXCEPT !.ok = FALSE, !.err = kind, !.errname = name]

err_encode_message_unsupported(w, version, name) == Fail(w, "Unsupported", name)

Int16_encode(w, v, at) == Put(w, BigEndian(2, v), Entry(at, "Int16", FALSE, <<>>))
Int32_encode(w, v, at) == Put(w, BigEndian(4, v), Entry(at, "Int32", FALSE, <<>>))
Int64_encode(w, v, at) == Put(w, BigEndian(8, v), Entry(at, "Int64", FALSE, <<>>))
Uuid_encode(w, v, at) == Put(w, v, Entry(at, "Uuid", FALSE, <<>>))

\* classic: i16 length then the bytes; compact: uvarint(n+1) then the bytes
NullableString_encode(w, compact, s, at) ==
    Put(w, (IF compact THEN UnsignedVarintBytes(Len(s) + 1) ELSE BigEndian(2, Len(s))) \o s,
        Entry(at, "NullableString", compact, <<>>))

\* classic: i32 length then the bytes; compact: uvarint(n+1) then the bytes
NullableBytes_encode(w, compact, b, at) ==
    Put(w, (IF compact THEN UnsignedVarintBytes(Len(b) + 1) ELSE BigEndian(4, Len(b))) \o b,
        Entry(at, "NullableBytes", compact, <<>>))

\* the length prefix of an array; opt.some = FALSE is the null array
NullableArray_header(w, compact, opt, at) ==
    Put(w, IF compact
             THEN UnsignedVarintBytes(IF opt.some THEN Len(opt.val) + 1 ELSE 0)
             ELSE BigEndian(4, IF opt.some THEN Len(opt.val) ELSE -1),
        Entry(at, "NullableArray", compact, <<>>))

RECURSIVE RawTaggedFieldBytes(_)
RawTaggedFieldBytes(fields) ==
    IF fields = <<>> THEN <<>>
    ELSE LET f == Head(fields)
         IN  UnsignedVarintBytes(f.tag) \o UnsignedVarintBytes(Len(f.data)) \o f.data
             \o RawTaggedFieldBytes(Tail(fields))

Tags(fields) == [i \in 1..Len(fields) |-> fields[i].tag]

\* uvarint count, then (uvarint tag, uvarint size, body) per entry, as given
RawTaggedFieldList_encode(w, fields, at) ==
    Put(w, UnsignedVarintBytes(Len(fields)) \o RawTaggedFieldBytes(fields),
        Entry(at, "RawTaggedFieldList", TRUE, Tags(fields)))

Some(x) == [some |-> TRUE, val |-> x]

None(default) == [some |-> FALSE, val |-> default]

\* ------------------------------------------------------------------------
\* fetch_response.rs: the child structs
\* ------------------------------------------------------------------------
\* variant: the version guard is `version <= 4`
AbortedTransaction_encode_GuardOffByOne(w, self, version) ==
    LET w0 == IF version <= 4
                THEN err_encode_message_unsupported(w, version, "AbortedTransaction")
                ELSE w
        w1 == Int64_encode(w0, self.producer_id, At("AbortedTransaction", version, "producer_id"))
        w2 == Int64_encode(w1, self.first_offset, At("AbortedTransaction", version, "first_offset"))
    IN  IF version >= 12
          THEN RawTaggedFieldList_encode(w2, self.unknown_tagged_fields,
                   At("AbortedTransaction", version, "unknown_tagged_fields"))
          ELSE w2

AbortedTransaction_encode(w, self, version) ==
    LET w0 == IF version < 4
                THEN err_encode_message_unsupported(w, version, "AbortedTransaction")
                ELSE w
        w1 == Int64_encode(w0, self.producer_id, At("AbortedTransaction", version, "producer_id"))
        w2 == Int64_encode(w1, self.first_offset, At("AbortedTransaction", version, "first_offset"))
    IN  IF version >= 12
          THEN RawTaggedFieldList_encode(w2, self.unknown_tagged_fields,
                   At("AbortedTransaction", version, "unknown_tagged_fields"))
          ELSE w2

EpochEndOffset_encode(w, self, version) ==
    LET w0 == IF version < 12
                THEN err_encode_message_unsupported(w, version, "EpochEndOffset")
                ELSE w
        w1 == Int32_encode(w0, self.epoch, At("EpochEndOffset", version, "epoch"))
        w2 == Int64_encode(w1, self.end_offset, At("EpochEndOffset", version, "end_offset"))
    IN  RawTaggedFieldList_encode(w2, self.unknown_tagged_fields,
            At("EpochEndOffset", version, "unknown_tagged_fields"))

LeaderIdAndEpoch_encode(w, self, version) ==
    LET w0 == IF version < 12
                THEN err_encode_message_unsupported(w, version, "LeaderIdAndEpoch")
                ELSE w
        w1 == Int32_encode(w0, self.leader_id, At("LeaderIdAndEpoch", version, "leader_id"))
        w2 == Int32_encode(w1, self.leader_epoch, At("LeaderIdAndEpoch", version, "leader_epoch"))
    IN  RawTaggedFieldList_encode(w2, self.unknown_tagged_fields,
            At("LeaderIdAndEpoch", version, "unknown_tagged_fields"))

SnapshotId_encode(w, self, version) ==
    LET w0 == IF version < 12
                THEN err_encode_message_unsupported(w, version, "SnapshotId")
                ELSE w
        w1 == Int64_encode(w0, self.end_offset, At("SnapshotId", version, "end_offset"))
        w2 == Int32_encode(w1, self.epoch, At("SnapshotId", version, "epoch"))
    IN  RawTaggedFieldList_encode(w2, self.unknown_tagged_fields,
            At("SnapshotId", version, "unknown_tagged_fields"))

RECURSIVE AbortedTransaction_encode_each(_, _, _)
\* the elements of NullableArray(Struct(version), _) over AbortedTransaction
AbortedTransaction_encode_each(w, xs, version) ==
    IF xs = <<>> \/ ~w.ok THEN w
    ELSE AbortedTransaction_encode_each(
             AbortedTransaction_encode(w, Head(xs), version), Tail(xs), version)

\* ------------------------------------------------------------------------
\* fetch_response.rs: PartitionData
\* ------------------------------------------------------------------------
\* One `if let Some(x) = &self.f { list.push(RawTaggedField { tag, data:
\* Struct(version).encode_alloc(x)? }) }` statement.  st is the pair of the
\* writer and the local list; sub is x encoded into a fresh buffer.
PushTagged(st, opt, tag, sub) ==
    IF ~st.w.ok \/ ~opt.some THEN st
    ELSE IF ~sub.ok
           THEN [st EXCEPT !.w = [Fail(@, sub.err, sub.errname) EXCEPT !.log = @ \o sub.log]]
           ELSE [w    |-> [st.w EXCEPT !.log = @ \o sub.log],
                 list |-> Append(st.list, [tag |-> tag, data |-> sub.bytes])]

\* variant: aborted_transactions is guarded by `version >= 3`
PartitionData_encode_AbortedFrom3(w, self, version) ==
    LET at(f) == At("PartitionData", version, f)
        w1 == Int32_encode(w, self.partition_index, at("partition_index"))
        w2 == Int16_encode(w1, self.error_code, at("error_code"))
        w3 == Int64_encode(w2, self.high_watermark, at("high_watermark"))
        w4 == IF version >= 4
                THEN Int64_encode(w3, self.last_stable_offset, at("last_stable_offset"))
                ELSE w3
        w5 == IF version >= 5
                THEN Int64_encode(w4, self.log_start_offset, at("log_start_offset"))
                ELSE w4
        w6 == IF version >= 3
                THEN LET h == NullableArray_header(w5, version >= 12,
                                  self.aborted_transactions, at("aborted_transactions"))
                     IN  IF self.aborted_transactions.some
                           THEN AbortedTransaction_encode_each(
                                    h, self.aborted_transactions.val, version)
                           ELSE h
                ELSE w5
        w7 == IF version >= 11
                THEN Int32_encode(w6, self.preferred_read_replica, at("preferred_read_replica"))
                ELSE w6
        w8 == NullableBytes_encode(w7, version >= 12, self.records, at("records"))
    IN  IF version >= 12
          THEN LET s0 == [w |-> w8, list |-> <<>>]
                   s1 == PushTagged(s0, self.diverging_epoch, 0,
                             EpochEndOffset_encode(NewWriter, self.diverging_epoch.val, version))
                   s2 == PushTagged(s1, self.current_leader, 1,
                             LeaderIdAndEpoch_encode(NewWriter, self.current_leader.val, version))
                   s3 == PushTagged(s2, self.snapshot_id, 2,
                             SnapshotId_encode(NewWriter, self.snapshot_id.val, version))
                   unknown_tagged_fields == s3.list \o self.unknown_tagged_fields
               IN  RawTaggedFieldList_encode(s3.w, unknown_tagged_fields,
                       at("unknown_tagged_fields"))
          ELSE w8

PartitionData_encode(w, self, version) ==
    LET at(f) == At("PartitionData", version, f)
        w1 == Int32_encode(w, self.partition_index, at("partition_index"))
        w2 == Int16_encode(w1, self.error_code, at("error_code"))
        w3 == Int64_encode(w2, self.high_watermark, at("high_watermark"))
        w4 == IF version >= 4
                THEN Int64_encode(w3, self.last_stable_offset, at("last_stable_offset"))
                ELSE w3
        w5 == IF version >= 5
                THEN Int64_encode(w4, self.log_start_offset, at("log_start_offset"))
                ELSE w4
        w6 == IF version >= 4
                THEN LET h == NullableArray_header(w5, version >= 12,
                                  self.aborted_transactions, at("aborted_transactions"))
                     IN  IF self.aborted_transactions.some
                           THEN AbortedTransaction_encode_each(
                                    h, self.aborted_transactions.val, version)
                           ELSE h
                ELSE w5
        w7 == IF version >= 11
                THEN Int32_encode(w6, self.preferred_read_replica, at("preferred_read_replica"))
                ELSE w6
        w8 == NullableBytes_encode(w7, version >= 12, self.records, at("records"))
    IN  IF version >= 12
          THEN LET s0 == [w |-> w8, list |-> <<>>]
                   s1 == PushTagged(s0, self.diverging_epoch, 0,
                             EpochEndOffset_encode(NewWriter, self.diverging_epoch.val, version))
                   s2 == PushTagged(s1, self.current_leader, 1,
                             LeaderIdAndEpoch_encode(NewWriter, self.current_leader.val, version))
                   s3 == PushTagged(s2, self.snapshot_id, 2,
                             SnapshotId_encode(NewWriter, self.snapshot_id.val, version))
                   unknown_tagged_fields == s3.list \o self.unknown_tagged_fields
               IN  RawTaggedFieldList_encode(s3.w, unknown_tagged_fields,
                       at("unknown_tagged_fields"))
          ELSE w8

RECURSIVE PartitionData_encode_each(_, _, _)
\* the elements of NullableArray(Struct(version), _) over PartitionData
PartitionData_encode_each(w, xs, version) ==
    IF xs = <<>> \/ ~w.ok THEN w
    ELSE PartitionData_encode_each(
             PartitionData_encode(w, Head(xs), version), Tail(xs), version)

\* ------------------------------------------------------------------------
\* fetch_response.rs: FetchableTopicResponse and FetchResponse
\* ------------------------------------------------------------------------
\* variant: the inline name is guarded by `version < 12`
FetchableTopicResponse_encode_NameBelow12(w, self, version) ==
    LET at(f) == At("FetchableTopicResponse", version, f)
        w1 == IF version < 12
                THEN NullableString_encode(w, version >= 12, self.topic, at("topic"))
                ELSE w
        w2 == IF version >= 13
                THEN Uuid_encode(w1, self.topic_id, at("topic_id"))
                ELSE w1
        w3 == PartitionData_encode_each(
                  NullableArray_header(w2, version >= 12, Some(self.partitions), at("partitions")),
                  self.partitions, version)
    IN  IF version >= 12
          THEN RawTaggedFieldList_encode(w3, self.unknown_tagged_fields,
                   at("unknown_tagged_fields"))
          ELSE w3

FetchableTopicResponse_encode(w, self, version) ==
    LET at(f) == At("FetchableTopicResponse", version, f)
        w1 == IF version <= 12
                THEN NullableString_encode(w, version >= 12, self.topic, at("topic"))
                ELSE w
        w2 == IF version >= 13
                THEN Uuid_encode(w1, self.topic_id, at("topic_id"))
                ELSE w1
        w3 == PartitionData_encode_each(
                  NullableArray_header(w2, version >= 12, Some(self.partitions), at("partitions")),
                  self.partitions, version)
    IN  IF version >= 12
          THEN RawTaggedFieldList_encode(w3, self.unknown_tagged_fields,
                   at("unknown_tagged_fields"))
          ELSE w3

RECURSIVE FetchableTopicResponse_encode_each(_, _, _)
\* the elements of NullableArray(Struct(version), _) over FetchableTopicResponse
FetchableTopicResponse_encode_each(w, xs, version) ==
    IF xs = <<>> \/ ~w.ok THEN w
    ELSE FetchableTopicResponse_encode_each(
             FetchableTopicResponse_encode(w, Head(xs), version), Tail(xs), version)

FetchResponse_encode(w, self, version) ==
    LET at(f) == At("FetchResponse", version, f)
        w1 == IF version >= 1
                THEN Int32_encode(w, self.throttle_time_ms, at("throttle_time_ms"))
                ELSE w
        w2 == IF version >= 7
                THEN Int32_encode(Int16_encode(w1, self.error_code, at("error_code")),
                                  self.session_id, at("session_id"))
                ELSE w1
        w3 == FetchableTopicResponse_encode_each(
                  NullableArray_header(w2, version >= 12, Some(self.responses), at("responses")),
                  self.responses, version)
    IN  IF version >= 12
          THEN RawTaggedFieldList_encode(w3, self.unknown_tagged_fields,
                   at("unknown_tagged_fields"))
          ELSE w3

\* ------------------------------------------------------------------------
\* Reader: the unread rest of the input buffer of a decode call, the
\* sequence of primitive reads done so far, the value of the last read and
\* the first error.
\* ------------------------------------------------------------------------
NewReader(bytes) ==
    [ok |-> TRUE, err |-> "", errname |-> "", buf |-> bytes, log |-> <<>>]

\* a decoded value together with the reader it leaves behind
Got(r, v) == [r |-> r, v |-> v]

Advance(r, n, entry) == [r EXCEPT !.buf = Drop(@, n), !.log = Append(@, entry)]

err_decode_message_null(r, field) == Fail(r, "UnexpectedNull", field)

Signed(u, bits) == IF u >= 2 ^ (bits - 1) THEN u - 2 ^ bits ELSE u

Int16_decode(r, at) ==
    IF ~r.ok THEN Got(r, 0)
    ELSE IF Len(r.buf) < 2 THEN Got(Fail(r, "Truncated", at.field), 0)
    ELSE Got(Advance(r, 2, Entry(at, "Int16", FALSE, <<>>)),
             Signed(r.buf[1] * 256 + r.buf[2], 16))

Int32_decode(r, at) ==
    IF ~r.ok THEN Got(r, 0)
    ELSE IF Len(r.buf) < 4 THEN Got(Fail(r, "Truncated", at.field), 0)
    ELSE Got(Advance(r, 4, Entry(at, "Int32", FALSE, <<>>)),
             Signed(r.buf[1], 8) * 16777216 + r.buf[2] * 65536 + r.buf[3] * 256 + r.buf[4])

RECURSIVE UnsignedVarintParse(_, _, _, _)
\* 7-bit groups, least significant first; at most 5 bytes.
\* Yields [err, val, len]: err is "" on success.
UnsignedVarintParse(buf, i, acc, weight) ==
    IF i > Len(buf) THEN [err |-> "Truncated", val |-> 0, len |-> 0]
    ELSE IF buf[i] < 128
           THEN [err |-> "", val |-> acc + buf[i] * weight, len |-> i]
    ELSE IF i = 5 THEN [err |-> "Malformed", val |-> 0, len |-> 0]
    ELSE UnsignedVarintParse(buf, i + 1, acc + (buf[i] - 128) * weight, weight * 128)

UnsignedVarint_parse(buf) == UnsignedVarintParse(buf, 1, 0, 1)

\* the number of bytes of the UTF-8 sequence that starts s, 0 if ill-formed
Utf8Step(s) ==
    LET cont(i, lo, hi) == i <= Len(s) /\ s[i] >= lo /\ s[i] <= hi
        b == s[1]
    IN  IF b < 128 THEN 1
        ELSE IF b >= 194 /\ b <= 223 /\ cont(2, 128, 191) THEN 2
        ELSE IF b = 224 /\ cont(2, 160, 191) /\ cont(3, 128, 191) THEN 3
        ELSE IF b = 237 /\ cont(2, 128, 159) /\ cont(3, 128, 191) THEN 3
        ELSE IF b >= 225 /\ b <= 239 /\ b # 237 /\ cont(2, 128, 191) /\ cont(3, 128, 191) THEN 3
        ELSE IF b = 240 /\ cont(2, 144, 191) /\ cont(3, 128, 191) /\ cont(4, 128, 191) THEN 4
        ELSE IF b >= 241 /\ b <= 243 /\ cont(2, 128, 191) /\ cont(3, 128, 191)
                /\ cont(4, 128, 191) THEN 4
        ELSE IF b = 244 /\ cont(2, 128, 143) /\ cont(3, 128, 191) /\ cont(4, 128, 191) THEN 4
        ELSE 0

RECURSIVE Utf8Valid(_)
Utf8Valid(s) ==
    IF s = <<>> THEN TRUE
    ELSE LET n == Utf8Step(s) IN n > 0 /\ Utf8Valid(Drop(s, n))

\* classic: i16 length (-1 is null); compact: uvarint n+1 (0 is null).
\* The value is an optional string.
NullableString_decode(r, compact, at) ==
    LET null == None(<<>>)
        entry == Entry(at, "NullableString", compact, <<>>)
        \* the payload of n bytes that follows a prefix of k bytes
        body(k, n) ==
            IF Len(r.buf) < k + n THEN Got(Fail(r, "Truncated", at.field), null)
            ELSE IF ~Utf8Valid(SubSeq(r.buf, k + 1, k + n))
                   THEN Got(Fail(r, "Malformed", at.field), null)
            ELSE Got(Advance(r, k + n, entry), Some(SubSeq(r.buf, k + 1, k + n)))
    IN  IF ~r.ok THEN Got(r, null)
        ELSE IF compact
          THEN LET p == UnsignedVarint_parse(r.buf)
               IN  IF p.err # "" THEN Got(Fail(r, p.err, at.field), null)
                   ELSE IF p.val = 0 THEN Got(Advance(r, p.len, entry), null)
                   ELSE body(p.len, p.val - 1)
          ELSE IF Len(r.buf) < 2 THEN Got(Fail(r, "Truncated", at.field), null)
               ELSE LET n == Signed(r.buf[1] * 256 + r.buf[2], 16)
                    IN  IF n = -1 THEN Got(Advance(r, 2, entry), null)
                        ELSE IF n < 0 THEN Got(Fail(r, "Malformed", at.field), null)
                        ELSE body(2, n)

RECURSIVE RawTaggedFieldParse(_, _, _, _)
\* count entries of (uvarint tag, uvarint size, body), tags strictly ascending.
\* Yields [err, fields, rest].
RawTaggedFieldParse(buf, count, last, fields) ==
    IF count = 0 THEN [err |-> "", fields |-> fields, rest |-> buf]
    ELSE LET t == UnsignedVarint_parse(buf)
             afterTag == Drop(buf, t.len)
             z == UnsignedVarint_parse(afterTag)
             afterSize == Drop(afterTag, z.len)
             bad(e) == [err |-> e, fields |-> fields, rest |-> buf]
         IN  IF t.err # "" THEN bad(t.err)
             ELSE IF t.val <= last THEN bad("Malformed")
             ELSE IF z.err # "" THEN bad(z.err)
             ELSE IF Len(afterSize) < z.val THEN bad("Truncated")
             ELSE RawTaggedFieldParse(Drop(afterSize, z.val), count - 1, t.val,
                      Append(fields, [tag |-> t.val, data |-> Take(afterSize, z.val)]))

RawTaggedFieldList_decode(r, at) ==
    IF ~r.ok THEN Got(r, <<>>)
    ELSE LET c == UnsignedVarint_parse(r.buf)
             p == RawTaggedFieldParse(Drop(r.buf, c.len), c.val, -1, <<>>)
         IN  IF c.err # "" THEN Got(Fail(r, c.err, at.field), <<>>)
             ELSE IF p.err # "" THEN Got(Fail(r, p.err, at.field), <<>>)
             ELSE Got(Advance(r, Len(r.buf) - Len(p.rest),
                              Entry(at, "RawTaggedFieldList", TRUE, Tags(p.fields))),
                      p.fields)

\* `.ok_or_else(|| err_decode_message_null(field))?` on a decoded string
OkOrNull(g, field) ==
    IF g.r.ok /\ ~g.v.some THEN Got(err_decode_message_null(g.r, field), <<>>)
    ELSE Got(g.r, g.v.val)

\* `.unwrap_or_default()` on a decoded string
UnwrapOrDefault(g) == Got(g.r, IF g.v.some THEN g.v.val ELSE <<>>)

\* ------------------------------------------------------------------------
\* request_header.rs
\* ------------------------------------------------------------------------
\* variant: the guards test the request_api_version read from the bytes
RequestHeader_decode_GuardOnApiVersion(r, version) ==
    LET at(f) == At("RequestHeader", version, f)
        k == Int16_decode(r, at("request_api_key"))
        v == Int16_decode(k.r, at("request_api_version"))
        c == Int32_decode(v.r, at("correlation_id"))
        id == IF v.v >= 1
                THEN UnwrapOrDefault(NullableString_decode(c.r, FALSE, at("client_id")))
                ELSE Got(c.r, <<>>)
        t == IF v.v >= 2
               THEN RawTaggedFieldList_decode(id.r, at("unknown_tagged_fields"))
               ELSE Got(id.r, <<>>)
    IN  Got(t.r, [request_api_key |-> k.v, request_api_version |-> v.v,
                  correlation_id |-> c.v, client_id |-> id.v,
                  unknown_tagged_fields |-> t.v])

\* variant: a null client_id is an error, as in the request bodies
RequestHeader_decode_NullClientIdFails(r, version) ==
    LET at(f) == At("RequestHeader", version, f)
        k == Int16_decode(r, at("request_api_key"))
        v == Int16_decode(k.r, at("request_api_version"))
        c == Int32_decode(v.r, at("correlation_id"))
        id == IF version >= 1
                THEN OkOrNull(NullableString_decode(c.r, FALSE, at("client_id")), "client_id")
                ELSE Got(c.r, <<>>)
        t == IF version >= 2
               THEN RawTaggedFieldList_decode(id.r, at("unknown_tagged_fields"))
               ELSE Got(id.r, <<>>)
    IN  Got(t.r, [request_api_key |-> k.v, request_api_version |-> v.v,
                  correlation_id |-> c.v, client_id |-> id.v,
                  unknown_tagged_fields |-> t.v])

RequestHeader_decode(r, version) ==
    LET at(f) == At("RequestHeader", version, f)
        k == Int16_decode(r, at("request_api_key"))
        v == Int16_decode(k.r, at("request_api_version"))
        c == Int32_decode(v.r, at("correlation_id"))
        id == IF version >= 1
                THEN UnwrapOrDefault(NullableString_decode(c.r, FALSE, at("client_id")))
                ELSE Got(c.r, <<>>)
        t == IF version >= 2
               THEN RawTaggedFieldList_decode(id.r, at("unknown_tagged_fields"))
               ELSE Got(id.r, <<>>)
    IN  Got(t.r, [request_api_key |-> k.v, request_api_version |-> v.v,
                  correlation_id |-> c.v, client_id |-> id.v,
                  unknown_tagged_fields |-> t.v])

\* ------------------------------------------------------------------------
\* api_versions_request.rs
\* ------------------------------------------------------------------------
ApiVersionsRequest_decode(r, version) ==
    LET at(f) == At("ApiVersionsRequest", version, f)
        n == IF version >= 3
               THEN OkOrNull(NullableString_decode(r, TRUE, at("client_software_name")),
                             "client_software_name")
               ELSE Got(r, <<>>)
        v == IF version >= 3
               THEN OkOrNull(NullableString_decode(n.r, TRUE, at("client_software_version")),
                             "client_software_version")
               ELSE Got(n.r, <<>>)
        t == IF version >= 3
               THEN RawTaggedFieldList_decode(v.r, at("unknown_tagged_fields"))
               ELSE Got(v.r, <<>>)
    IN  Got(t.r, [client_software_name |-> n.v, client_software_version |-> v.v,
                  unknown_tagged_fields |-> t.v])

\* ------------------------------------------------------------------------
\* heartbeat_request.rs
\* ------------------------------------------------------------------------
\* variant: the null error of member_id carries the name of group_id
HeartbeatRequest_read_WrongFieldName(r, version) ==
    LET at(f) == At("HeartbeatRequest", version, f)
        g == OkOrNull(NullableString_decode(r, version >= 4, at("group_id")), "group_id")
        n == Int32_decode(g.r, at("generation_id"))
        m == OkOrNull(NullableString_decode(n.r, version >= 4, at("member_id")), "group_id")
        i == IF version >= 3
               THEN NullableString_decode(m.r, version >= 4, at("group_instance_id"))
               ELSE Got(m.r, None(<<>>))
        t == IF version >= 4
               THEN RawTaggedFieldList_decode(i.r, at("unknown_tagged_fields"))
               ELSE Got(i.r, <<>>)
    IN  Got(t.r, [group_id |-> g.v, generation_id |-> n.v, member_id |-> m.v,
                  group_instance_id |-> i.v, unknown_tagged_fields |-> t.v])

\* variant: group_instance_id is read with NullableString(version >= 3)
HeartbeatRequest_read_InstanceIdCompactFrom3(r, version) ==
    LET at(f) == At("HeartbeatRequest", version, f)
        g == OkOrNull(NullableString_decode(r, version >= 4, at("group_id")), "group_id")
        n == Int32_decode(g.r, at("generation_id"))
        m == OkOrNull(NullableString_decode(n.r, version >= 4, at("member_id")), "member_id")
        i == IF version >= 3
               THEN NullableString_decode(m.r, version >= 3, at("group_instance_id"))
               ELSE Got(m.r, None(<<>>))
        t == IF version >= 4
               THEN RawTaggedFieldList_decode(i.r, at("unknown_tagged_fields"))
               ELSE Got(i.r, <<>>)
    IN  Got(t.r, [group_id |-> g.v, generation_id |-> n.v, member_id |-> m.v,
                  group_instance_id |-> i.v, unknown_tagged_fields |-> t.v])

HeartbeatRequest_read(r, version) ==
    LET at(f) == At("HeartbeatRequest", version, f)
        g == OkOrNull(NullableString_decode(r, version >= 4, at("group_id")), "group_id")
        n == Int32_decode(g.r, at("generation_id"))
        m == OkOrNull(NullableString_decode(n.r, version >= 4, at("member_id")), "member_id")
        i == IF version >= 3
               THEN NullableString_decode(m.r, version >= 4, at("group_instance_id"))
               ELSE Got(m.r, None(<<>>))
        t == IF version >= 4
               THEN RawTaggedFieldList_decode(i.r, at("unknown_tagged_fields"))
               ELSE Got(i.r, <<>>)
    IN  Got(t.r, [group_id |-> g.v, generation_id |-> n.v, member_id |-> m.v,
                  group_instance_id |-> i.v, unknown_tagged_fields |-> t.v])

\* ------------------------------------------------------------------------
\* Input values
\* ------------------------------------------------------------------------
RawTaggedFields == [tag : 0..MaxTag, data : {<<170>>}]

EpochEndOffset_default == [epoch |-> -1, end_offset |-> -1, unknown_tagged_fields |-> <<>>]
LeaderIdAndEpoch_default == [leader_id |-> -1, leader_epoch |-> -1, unknown_tagged_fields |-> <<>>]
SnapshotId_default == [end_offset |-> -1, epoch |-> -1, unknown_tagged_fields |-> <<>>]

AbortedTransactionValues ==
    [producer_id : {0, 7}, first_offset : {0, 3},
     unknown_tagged_fields : SeqsUpTo(RawTaggedFields, 1)]
EpochEndOffsetValues ==
    [epoch : {-1, 5}, end_offset : {-1, 100},
     unknown_tagged_fields : SeqsUpTo(RawTaggedFields, 1)]
LeaderIdAndEpochValues ==
    [leader_id : {-1, 2}, leader_epoch : {-1, 9},
     unknown_tagged_fields : SeqsUpTo(RawTaggedFields, 1)]
SnapshotIdValues ==
    [end_offset : {-1, 100}, epoch : {-1, 5},
     unknown_tagged_fields : SeqsUpTo(RawTaggedFields, 1)]

SomeAbortedTransaction == [producer_id |-> 7, first_offset |-> 3, unknown_tagged_fields |-> <<>>]
SomeEpochEndOffset == [epoch |-> 5, end_offset |-> 100, unknown_tagged_fields |-> <<>>]
SomeLeaderIdAndEpoch == [leader_id |-> 2, leader_epoch |-> 9, unknown_tagged_fields |-> <<>>]
SomeSnapshotId == [end_offset |-> 100, epoch |-> 5, unknown_tagged_fields |-> <<>>]

\* Two families of PartitionData values: every combination of the fields
\* with a presence window, with a short unknown_tagged_fields list, and
\* every combination of the tagged fields, with every unknown_tagged_fields
\* list up to MaxUnknown.
PartitionDataValues ==
    [partition_index : {0}, error_code : {0}, high_watermark : {10},
     last_stable_offset : {0, 4}, log_start_offset : {0, 1},
     diverging_epoch : {None(EpochEndOffset_default), Some(SomeEpochEndOffset)},
     current_leader : {None(LeaderIdAndEpoch_default), Some(SomeLeaderIdAndEpoch)},
     snapshot_id : {None(SnapshotId_default), Some(SomeSnapshotId)},
     aborted_transactions :
         {None(<<>>)} \cup {Some(l) : l \in SeqsUpTo({SomeAbortedTransaction}, MaxAborted)},
     preferred_read_replica : {0, 3},
     records : {<<>>, <<82>>},
     unknown_tagged_fields : SeqsUpTo(RawTaggedFields, 1)]
    \cup
    [partition_index : {0}, error_code : {0}, high_watermark : {10},
     last_stable_offset : {0}, log_start_offset : {0},
     diverging_epoch : {None(EpochEndOffset_default), Some(SomeEpochEndOffset)},
     current_leader : {None(LeaderIdAndEpoch_default), Some(SomeLeaderIdAndEpoch)},
     snapshot_id : {None(SnapshotId_default), Some(SomeSnapshotId)},
     aborted_transactions : {None(<<>>), Some(<<SomeAbortedTransaction>>)},
     preferred_read_replica : {0},
     records : {<<82>>},
     unknown_tagged_fields : SeqsUpTo(RawTaggedFields, MaxUnknown)]

\* PartitionData::default()
PartitionData_default ==
    [partition_index |-> 0, error_code |-> 0, high_watermark |-> 0,
     last_stable_offset |-> 0, log_start_offset |-> 0,
     diverging_epoch |-> None(EpochEndOffset_default),
     current_leader |-> None(LeaderIdAndEpoch_default),
     snapshot_id |-> None(SnapshotId_default),
     aborted_transactions |-> None(<<>>),
     preferred_read_replica |-> 0, records |-> <<>>, unknown_tagged_fields |-> <<>>]

\* the partitions that topics are built from
SamplePartitions ==
    { PartitionData_default,
      [PartitionData_default EXCEPT !.aborted_transactions = Some(<<SomeAbortedTransaction>>),
                                    !.last_stable_offset = 4, !.log_start_offset = 1,
                                    !.preferred_read_replica = 3, !.records = <<82>>,
                                    !.unknown_tagged_fields = <<[tag |-> 3, data |-> <<170>>]>>],
      [PartitionData_default EXCEPT !.diverging_epoch = Some(SomeEpochEndOffset),
                                    !.current_leader = Some(SomeLeaderIdAndEpoch),
                                    !.snapshot_id = Some(SomeSnapshotId)] }

ZeroUuid == [i \in 1..16 |-> 0]
SomeUuid == [i \in 1..16 |-> i]

FetchableTopicResponseValues ==
    [topic : {<<>>, <<116>>}, topic_id : {ZeroUuid, SomeUuid},
     partitions : SeqsUpTo(SamplePartitions, MaxPartitions),
     unknown_tagged_fields : SeqsUpTo(RawTaggedFields, 1)]

\* the topics that responses are built from
SampleTopics ==
    [topic : {<<116>>}, topic_id : {SomeUuid},
     partitions : SeqsUpTo(SamplePartitions, MaxPartitions),
     unknown_tagged_fields : {<<>>}]

FetchResponseValues ==
    [throttle_time_ms : {0, 1}, error_code : {0, 1}, session_id : {0, 1},
     responses : SeqsUpTo(SampleTopics, MaxResponses),
     unknown_tagged_fields : {<<>>, <<[tag |-> 0, data |-> <<170>>]>>}]

\* Decode inputs are byte strings: a field-shaped head followed by a free tail.
TailBytes == {0, 1, 2, 255}
Tails == SeqsUpTo(TailBytes, MaxTail)

\* "g" classic, null classic, empty classic, "g" compact, null compact
StringHeads == {<<0, 1, 103>>, <<255, 255>>, <<0, 0>>, <<2, 103>>, <<0>>}
Int32Heads == {<<0, 0, 0, 1>>}

HeartbeatRequestInputs ==
    {a \o n \o b \o t : a \in StringHeads, n \in Int32Heads, b \in StringHeads, t \in Tails}

ApiVersionsRequestInputs ==
    {a \o b \o t : a \in {<<2, 97>>, <<0>>, <<>>}, b \in {<<2, 98>>, <<0>>, <<>>}, t \in Tails}

\* "c", null, empty, length -2, one non-UTF-8 byte, absent
ClientIdHeads == {<<0, 1, 99>>, <<255, 255>>, <<0, 0>>, <<255, 254>>, <<0, 1, 255>>, <<>>}

RequestHeaderInputs ==
    {k \o v \o c \o i \o t :
        k \in {<<0, 18>>}, v \in {<<0, 0>>, <<0, 3>>}, c \in {<<0, 0, 0, 7>>, <<0, 0>>},
        i \in ClientIdHeads, t \in Tails}

\* ------------------------------------------------------------------------
\* The state machine
\* ------------------------------------------------------------------------
VARIABLES
    pc,       \* "idle": no call in progress; "done": a call has returned
    op,       \* the entry point of the last call
    version,  \* its version argument
    arg,      \* its input: the struct (encode) or the bytes (decode)
    res       \* its outcome

vars == <<pc, op, version, arg, res>>

NoResult ==
    [ok |-> TRUE, err |-> "", errname |-> "", log |-> <<>>,
     bytes |-> <<>>, value |-> <<>>, rest |-> <<>>]

Encoded(w) ==
    [ok |-> w.ok, err |-> w.err, errname |-> w.errname, log |-> w.log,
     bytes |-> w.bytes, value |-> <<>>, rest |-> <<>>]

Decoded(g) ==
    [ok |-> g.r.ok, err |-> g.r.err, errname |-> g.r.errname, log |-> g.r.log,
     bytes |-> <<>>, value |-> IF g.r.ok THEN g.v ELSE <<>>, rest |-> g.r.buf]

Init ==
    /\ pc = "idle"
    /\ op = "none"
    /\ version = 0
    /\ arg = <<>>
    /\ res = NoResult

Call(name, v, x, outcome) ==
    /\ pc' = "done"
    /\ op' = name
    /\ version' = v
    /\ arg' = x
    /\ res' = outcome

CallFetchResponseEncode ==
    /\ pc = "idle"
    /\ \E v \in Versions, x \in FetchResponseValues :
           Call("FetchResponse.encode", v, x, Encoded(FetchResponse_encode(NewWriter, x, v)))

CallFetchableTopicResponseEncode ==
    /\ pc = "idle"
    /\ \E v \in Versions, x \in FetchableTopicResponseValues :
           Call("FetchableTopicResponse.encode", v, x,
                Encoded(FetchableTopicResponse_encode(NewWriter, x, v)))

CallPartitionDataEncode ==
    /\ pc = "idle"
    /\ \E v \in Versions, x \in PartitionDataValues :
           Call("PartitionData.encode", v, x, Encoded(PartitionData_encode(NewWriter, x, v)))

CallAbortedTransactionEncode ==
    /\ pc = "idle"
    /\ \E v \in Versions, x \in AbortedTransactionValues :
           Call("AbortedTransaction.encode", v, x,
                Encoded(AbortedTransaction_encode(NewWriter, x, v)))

CallEpochEndOffsetEncode ==
    /\ pc = "idle"
    /\ \E v \in Versions, x \in EpochEndOffsetValues :
           Call("EpochEndOffset.encode", v, x, Encoded(EpochEndOffset_encode(NewWriter, x, v)))

CallLeaderIdAndEpochEncode ==
    /\ pc = "idle"
    /\ \E v \in Versions, x \in LeaderIdAndEpochValues :
           Call("LeaderIdAndEpoch.encode", v, x,
                Encoded(LeaderIdAndEpoch_encode(NewWriter, x, v)))

CallSnapshotIdEncode ==
    /\ pc = "idle"
    /\ \E v \in Versions, x \in SnapshotIdValues :
           Call("SnapshotId.encode", v, x, Encoded(SnapshotId_encode(NewWriter, x, v)))

CallRequestHeaderDecode ==
    /\ pc = "idle"
    /\ \E v \in RequestVersions, b \in RequestHeaderInputs :
           Call("RequestHeader.decode", v, b, Decoded(RequestHeader_decode(NewReader(b), v)))

CallApiVersionsRequestDecode ==
    /\ pc = "idle"
    /\ \E v \in RequestVersions, b \in ApiVersionsRequestInputs :
           Call("ApiVersionsRequest.decode", v, b,
                Decoded(ApiVersionsRequest_decode(NewReader(b), v)))

CallHeartbeatRequestRead ==
    /\ pc = "idle"
    /\ \E v \in RequestVersions, b \in HeartbeatRequestInputs :
           Call("HeartbeatRequest.read", v, b, Decoded(HeartbeatRequest_read(NewReader(b), v)))

\* the caller takes the result; the codec keeps no state between calls
Return ==
    /\ pc = "done"
    /\ pc' = "idle"
    /\ op' = "none"
    /\ version' = 0
    /\ arg' = <<>>
    /\ res' = NoResult

Next ==
    \/ CallFetchResponseEncode
    \/ CallFetchableTopicResponseEncode
    \/ CallPartitionDataEncode
    \/ CallAbortedTransactionEncode
    \/ CallEpochEndOffsetEncode
    \/ CallLeaderIdAndEpochEncode
    \/ CallSnapshotIdEncode
    \/ CallRequestHeaderDecode
    \/ CallApiVersionsRequestDecode
    \/ CallHeartbeatRequestRead
    \/ Return

Spec == Init /\ [][Next]_vars

\* ------------------------------------------------------------------------
\* Properties
\* ------------------------------------------------------------------------
StrictlyAscending(t) == \A i \in 1..(Len(t) - 1) : t[i] < t[i + 1]
HasDuplicate(t) == \E i, j \in 1..Len(t) : i # j /\ t[i] = t[j]
IsPrefix(p, b) == Len(p) <= Len(b) /\ Take(b, Len(p)) = p
Entries(P(_)) == SelectSeq(res.log, P)
IsTrailer(e) == e.prim = "RawTaggedFieldList"
OwnTrailer(e) == IsTrailer(e) /\ e.struct = "PartitionData"

\* the tags PartitionData.encode collects: the known ones, then the unknown
CombinedTags(self) ==
    (IF self.diverging_epoch.some THEN <<0>> ELSE <<>>)
    \o (IF self.current_leader.some THEN <<1>> ELSE <<>>)
    \o (IF self.snapshot_id.some THEN <<2>> ELSE <<>>)
    \o Tags(self.unknown_tagged_fields)

\* C1: at every version >= 12 the tagged entries that PartitionData.encode
\* hands to the trailer writer are in strictly ascending tag order.
C1_TrailerTagsAscending ==
    (op = "PartitionData.encode" /\ version >= 12) =>
        \A i \in 1..Len(res.log) :
            OwnTrailer(res.log[i]) => StrictlyAscending(res.log[i].tags)

\* C2: encoding a non-default value of a field at a version outside the
\* field's presence window fails with Unsupported.
C2_AbsentFieldValueUnsupported ==
    /\ ( /\ op = "FetchResponse.encode"
         /\ \/ arg.throttle_time_ms # 0 /\ version < 1
            \/ arg.error_code # 0 /\ version < 7
            \/ arg.session_id # 0 /\ version < 7 )
       => (~res.ok /\ res.err = "Unsupported")
    /\ ( /\ op = "PartitionData.encode"
         /\ \/ arg.last_stable_offset # 0 /\ version < 4
            \/ arg.log_start_offset # 0 /\ version < 5
            \/ arg.preferred_read_replica # 0 /\ version < 11
            \/ arg.aborted_transactions.some /\ version < 4
            \/ arg.diverging_epoch.some /\ version < 12
            \/ arg.current_leader.some /\ version < 12
            \/ arg.snapshot_id.some /\ version < 12 )
       => (~res.ok /\ res.err = "Unsupported")

ChildThreshold(name) == IF name = "AbortedTransaction.encode" THEN 4 ELSE 12
ChildEncodes ==
    {"AbortedTransaction.encode", "EpochEndOffset.encode",
     "LeaderIdAndEpoch.encode", "SnapshotId.encode"}

\* C3: a direct encode of AbortedTransaction fails with Unsupported exactly
\* when version < 4, and one of EpochEndOffset, LeaderIdAndEpoch or
\* SnapshotId exactly when version < 12; otherwise it succeeds.
C3_ChildVersionGuard ==
    op \in ChildEncodes =>
        /\ res.ok <=> version >= ChildThreshold(op)
        /\ ~res.ok => /\ res.err = "Unsupported"
                      /\ res.errname \o ".encode" = op
                      /\ res.bytes = <<>>

C3_Witness ==
    /\ op = "AbortedTransaction.encode"
    /\ version = 3
    /\ res.err = "Unsupported"

\* C4: when the combined tagged-field list of PartitionData.encode at a
\* version >= 12 repeats a tag, the encode fails and no trailer with a
\* repeated tag is written.
C4_DuplicateTagRejected ==
    (op = "PartitionData.encode" /\ version >= 12 /\ HasDuplicate(CombinedTags(arg))) =>
        /\ ~res.ok
        /\ \A i \in 1..Len(res.log) :
               OwnTrailer(res.log[i]) => ~HasDuplicate(res.log[i].tags)

\* the wire form of a short string, written out independently of the codec
WireString(compact, str) ==
    IF compact THEN <<Len(str) + 1>> \o str ELSE <<0, Len(str)>> \o str
\* the wire form of the length prefix of a short array
WireArrayLen(compact, n) == IF compact THEN <<n + 1>> ELSE <<0, 0, 0, n>>
\* the null sentinel of a string starts at position pos of b
NullAt(b, pos, compact) ==
    IF compact THEN Len(b) >= pos /\ b[pos] = 0
    ELSE Len(b) >= pos + 1 /\ b[pos] = 255 /\ b[pos + 1] = 255
StartsWith(b, p) == IsPrefix(p, b)

\* C5: FetchableTopicResponse.encode writes exactly one topic identifier:
\* the inline name iff version <= 12 (classic below 12, compact at 12) and
\* the 16-byte topic_id iff version >= 13; the other one leaves no bytes,
\* whatever its value, and the encode succeeds.
C5_OneTopicIdentifier ==
    op = "FetchableTopicResponse.encode" =>
        LET IsTopic(e) == e.struct = "FetchableTopicResponse" /\ e.field = "topic"
            IsTopicId(e) == e.struct = "FetchableTopicResponse" /\ e.field = "topic_id"
            names == Entries(IsTopic)
            ids == Entries(IsTopicId)
            compact == version >= 12
            identifier == IF version <= 12 THEN WireString(compact, arg.topic)
                          ELSE arg.topic_id
        IN  /\ res.ok
            /\ Len(names) = (IF version <= 12 THEN 1 ELSE 0)
            /\ Len(ids) = (IF version >= 13 THEN 1 ELSE 0)
            /\ \A i \in 1..Len(names) :
                   names[i].prim = "NullableString" /\ names[i].compact = (version = 12)
            /\ \A i \in 1..Len(ids) : ids[i].prim = "Uuid"
            \* the identifier opens the output and the partitions array follows it
            /\ StartsWith(res.bytes,
                          identifier \o WireArrayLen(compact, Len(arg.partitions)))

C5_Witness ==
    /\ op = "FetchableTopicResponse.encode"
    /\ version = 13
    /\ arg.topic # <<>>
    /\ res.ok
    /\ StartsWith(res.bytes, arg.topic_id)

\* C6: the null sentinel of a non-nullable string fails the decode with
\* UnexpectedNull naming the field (group_id, member_id of HeartbeatRequest;
\* client_software_name, client_software_version of ApiVersionsRequest at
\* version >= 3); a null group_instance_id at version >= 3 decodes to None.
C6_NullSentinel ==
    /\ op = "HeartbeatRequest.read" =>
         LET compact == version >= 4
             nulled(field) == ~res.ok /\ res.err = "UnexpectedNull" /\ res.errname = field
         IN  /\ NullAt(arg, 1, compact) => nulled("group_id")
             /\ \A g \in {<<>>, <<103>>} :
                  LET head == WireString(compact, g) \o <<0, 0, 0, 1>>
                  IN  /\ (StartsWith(arg, head) /\ NullAt(arg, Len(head) + 1, compact))
                         => nulled("member_id")
                      /\ \A m \in {<<>>, <<103>>} :
                           LET body == head \o WireString(compact, m)
                           IN  (version >= 3 /\ StartsWith(arg, body)
                                  /\ NullAt(arg, Len(body) + 1, compact))
                               => /\ res.err # "UnexpectedNull"
                                  /\ res.ok => ~res.value.group_instance_id.some
                                  /\ version = 3 => res.ok
                                  /\ (version >= 4 /\ StartsWith(Drop(arg, Len(body) + 1), <<0>>))
                                        => res.ok
    /\ (op = "ApiVersionsRequest.decode" /\ version >= 3) =>
         LET nulled(field) == ~res.ok /\ res.err = "UnexpectedNull" /\ res.errname = field
         IN  /\ NullAt(arg, 1, TRUE) => nulled("client_software_name")
             /\ (StartsWith(arg, WireString(TRUE, <<97>>)) /\ NullAt(arg, 3, TRUE))
                => nulled("client_software_version")

C6_Witness ==
    /\ op = "HeartbeatRequest.read"
    /\ version = 4
    /\ StartsWith(arg, <<2, 103, 0, 0, 0, 1, 0>>)
    /\ res.err = "UnexpectedNull"
    /\ res.errname = "member_id"

Fields(log) == [i \in 1..Len(log) |-> log[i].field]
Prims(log) == [i \in 1..Len(log) |-> log[i].prim]

\* C7: RequestHeader.decode reads request_api_key (i16), request_api_version
\* (i16), correlation_id (i32) in that order, client_id iff the header
\* version argument is >= 1 and always in the classic form, and a trailer iff
\* it is >= 2; at header version 0 exactly 8 bytes are consumed and client_id
\* is empty.
C7_HeaderLayout ==
    op = "RequestHeader.decode" =>
        LET fields == <<"request_api_key", "request_api_version", "correlation_id">>
                      \o (IF version >= 1 THEN <<"client_id">> ELSE <<>>)
                      \o (IF version >= 2 THEN <<"unknown_tagged_fields">> ELSE <<>>)
            prims == <<"Int16", "Int16", "Int32">>
                     \o (IF version >= 1 THEN <<"NullableString">> ELSE <<>>)
                     \o (IF version >= 2 THEN <<"RawTaggedFieldList">> ELSE <<>>)
        IN  /\ IsPrefix(Fields(res.log), fields)
            /\ IsPrefix(Prims(res.log), prims)
            /\ res.ok <=> Len(res.log) = Len(fields)
            /\ \A i \in 1..Len(res.log) :
                   res.log[i].prim = "NullableString" => ~res.log[i].compact
            /\ version = 0 =>
                   /\ res.ok <=> Len(arg) >= 8
                   /\ res.ok => /\ res.rest = Drop(arg, 8)
                                /\ res.value.client_id = <<>>
                                /\ res.value.unknown_tagged_fields = <<>>
            /\ (version >= 1 /\ StartsWith(arg, <<0, 18, 0, 3, 0, 0, 0, 7, 0, 1, 99>>)) =>
                   /\ version = 1 => res.ok
                   /\ res.ok => /\ res.value.request_api_key = 18
                                /\ res.value.request_api_version = 3
                                /\ res.value.correlation_id = 7
                                /\ res.value.client_id = <<99>>

C7_Witness ==
    /\ op = "RequestHeader.decode"
    /\ version = 0
    /\ res.ok
    /\ res.value.request_api_version = 3
    /\ Len(res.rest) > 0

FlexibleThreshold(struct) ==
    IF struct = "HeartbeatRequest" THEN 4
    ELSE IF struct = "ApiVersionsRequest" THEN 3
    ELSE 12

BodyStructs ==
    {"FetchResponse", "FetchableTopicResponse", "PartitionData", "AbortedTransaction",
     "HeartbeatRequest", "ApiVersionsRequest"}

StructOf(name) ==
    CASE name = "FetchResponse.encode" -> "FetchResponse"
      [] name = "FetchableTopicResponse.encode" -> "FetchableTopicResponse"
      [] name = "PartitionData.encode" -> "PartitionData"
      [] name = "AbortedTransaction.encode" -> "AbortedTransaction"
      [] name = "HeartbeatRequest.read" -> "HeartbeatRequest"
      [] name = "ApiVersionsRequest.decode" -> "ApiVersionsRequest"
      [] OTHER -> "none"

\* C8: in every message-body struct the compact form of strings, bytes and
\* arrays is used iff a tagged-field trailer is read or written, and both
\* hold exactly when version >= the struct's flexible threshold (12 for the
\* Fetch response structs, 4 for HeartbeatRequest, 3 for ApiVersionsRequest,
\* which consumes nothing below version 3).
C8_FlexibleFraming ==
    /\ \A i \in 1..Len(res.log) :
         LET e == res.log[i]
             flexible == e.version >= FlexibleThreshold(e.struct)
         IN  e.struct \in BodyStructs =>
                 /\ e.prim \in {"NullableString", "NullableBytes", "NullableArray"}
                       => (e.compact <=> flexible)
                 /\ IsTrailer(e) => flexible
    /\ (StructOf(op) \in BodyStructs /\ res.ok) =>
         LET last == res.log[Len(res.log)]
             closes == /\ res.log # <<>>
                       /\ IsTrailer(last)
                       /\ last.struct = StructOf(op)
                       /\ last.version = version
         IN  closes <=> version >= FlexibleThreshold(StructOf(op))
    /\ (op = "ApiVersionsRequest.decode" /\ version < 3) =>
         (res.ok /\ res.log = <<>> /\ res.rest = arg)

C8_Witness ==
    /\ op = "HeartbeatRequest.read"
    /\ version = 3
    /\ res.ok
    /\ res.value.group_instance_id.some
    /\ Len(res.log) = 4

ParentEncodes == {"FetchResponse.encode", "FetchableTopicResponse.encode", "PartitionData.encode"}

\* C9: one version value is threaded from FetchResponse.encode through every
\* child, AbortedTransaction is encoded only when version >= 4 and
\* EpochEndOffset, LeaderIdAndEpoch, SnapshotId only when version >= 12, so
\* the encode never fails with Unsupported, at any version and for any value.
C9_VersionThreaded ==
    op \in ParentEncodes =>
        /\ res.err # "Unsupported"
        /\ res.ok
        /\ \A i \in 1..Len(res.log) :
             LET e == res.log[i]
             IN  /\ e.version = version
                 /\ e.struct = "AbortedTransaction" => version >= 4
                 /\ e.struct \in {"EpochEndOffset", "LeaderIdAndEpoch", "SnapshotId"}
                       => version >= 12

C9_Witness ==
    /\ op = "FetchResponse.encode"
    /\ version = 3
    /\ \E i \in 1..Len(arg.responses) :
         \E j \in 1..Len(arg.responses[i].partitions) :
            LET p == arg.responses[i].partitions[j]
            IN  p.aborted_transactions.some /\ p.aborted_transactions.val # <<>>
    /\ res.ok

\* C10: at header version >= 1 a null client_id (classic length -1) never
\* fails RequestHeader.decode; client_id becomes the empty string and the
\* outcome equals that of the same bytes with a zero-length client_id.
C10_NullClientId ==
    (op = "RequestHeader.decode" /\ version >= 1 /\ NullAt(arg, 9, FALSE)) =>
        LET empty == [arg EXCEPT ![9] = 0, ![10] = 0]
            other == Decoded(RequestHeader_decode(NewReader(empty), version))
        IN  /\ res.err # "UnexpectedNull"
            /\ version = 1 => res.ok
            /\ res.ok => res.value.client_id = <<>>
            /\ res.ok = other.ok
            /\ res.err = other.err
            /\ res.value = other.value
            /\ res.rest = other.rest

C10_Witness ==
    /\ op = "RequestHeader.decode"
    /\ version = 2
    /\ NullAt(arg, 9, FALSE)
    /\ res.ok
    /\ res.value.client_id = <<>>
    /\ res.rest = <<>>

====
